---- MODULE Spec2Model ----
(***************************************************************************)
(* Order placement and payment reconciliation of Campus Dabba:             *)
(*   - the checkout page (CheckoutPage / handlePayment),                   *)
(*   - the gateway widget wrapper (initiatePayment),                       *)
(*   - the verify-payment endpoint (POST),                                 *)
(* and, each under a specification of its own since it shares no state     *)
(* with the checkout: the create-payment-session endpoint (SpecSession),   *)
(* the AuthProvider (SpecAuth) and the cook profile form (SpecCook).       *)
(* Every `await` of handlePayment is a step of its own, and a request to   *)
(* the endpoint may be served between any two of them.  One request is     *)
(* served in a single step: its three database calls touch one order and   *)
(* its payables, the fetch reads only cook_id and total, which no code     *)
(* rewrites, and a row deleted in between is the fetch returning nothing.  *)
(* A database call returns either a result or an error object; the code    *)
(* inspects (or ignores) that object, it is never thrown.                  *)
(* Cart prices are held in paise (1/100 rupee) and tax-inclusive totals in *)
(* 1/100 paise, so that `x * 1.18` is exact; the rounding error of the     *)
(* JavaScript doubles is not modelled.                                     *)
(***************************************************************************)
EXTENDS Integers, Sequences, FiniteSets, TLC

\* ---------------------------------------------------------------- bounds
MaxOrders    == 1      \* rows the orders table may ever receive
MaxPayables  == 2      \* rows the cook_payments table may ever receive
MaxPaymentId == 1      \* gateway payment ids are 1..MaxPaymentId
MaxGatewayCalls == 2   \* orders.create calls the gateway's log keeps

OrderIds   == 1..MaxOrders
PaymentIds == 1..MaxPaymentId
SessionIds == {1}      \* gateway session ("razorpay order") ids
None       == 0        \* a missing / undefined / null value

\* -------------------------------------------------------------- HMAC
Secret == 7            \* process.env.RAZORPAY_KEY_SECRET

\* crypto.createHmac("sha256", secret).update(`${oid}|${pid}`).digest("hex"):
\* a keyed, collision-free function of (secret, oid, pid) -- the three are
\* packed as digits, each radix above the largest id.
Hmac(secret, oid, pid) ==
    (secret * (Cardinality(SessionIds) + 2) + oid) * (MaxPaymentId + 2) + pid

\* a digest with its lowest bit flipped (a tampered signature)
FlipBit(d) == IF d % 2 = 0 THEN d + 1 ELSE d - 1

Signatures ==
    {Hmac(Secret, s, p) : s \in SessionIds, p \in PaymentIds}
      \cup {FlipBit(Hmac(Secret, s, p)) : s \in SessionIds, p \in PaymentIds}

\* ---------------------------------------------------------------- cart
CookA == 1
CookB == 2

\* CartItem {id, quantity, price, cook_id}; price in paise
LineA   == [id |-> "uuid-a", quantity |-> 2, price |-> 10000, cook_id |-> CookA]
LineB   == [id |-> "uuid-b", quantity |-> 1, price |-> 4999,  cook_id |-> CookB]
LineBad == [id |-> "17",     quantity |-> 1, price |-> 4999,  cook_id |-> CookA]

Carts == { <<>>, <<LineA>>, <<LineA, LineB>>, <<LineBad>> }

\* a match that accepts every non-empty string
IsUuid_AnyString(id) == id # ""

\* item.id.match(/^[0-9a-f]{8}-[0-9a-f]{4}-[0-9a-f]{4}-[0-9a-f]{4}-
\* [0-9a-f]{12}$/i): the 8-4-4-4-12 hyphenated hex shape
IsUuid(id) == id \in {"uuid-a", "uuid-b"}

RECURSIVE SumLines(_, _)
SumLines(c, i) ==
    IF i > Len(c) THEN 0
    ELSE c[i].price * c[i].quantity + SumLines(c, i + 1)

\* cart.reduce((total, item) => total + item.price * item.quantity, 0), paise
getCartTotal(c) == SumLines(c, 1)

\* getCartTotal() * 1.18, in 1/100 paise
TotalWithTax(c) == getCartTotal(c) * 118

\* toPaise cutting the fraction off instead of rounding
toPaise_Truncating(total) == total \div 100

\* toPaise(rupees) = Math.round(rupees * 100): from 1/100 paise to whole
\* paise, a half rounded up
toPaise(total) == (total + 50) \div 100

\* ------------------------------------------------------------- profile
FullAddress == [street |-> "s", city |-> "c", state |-> "st", pincode |-> "p"]
NoAddress   == [street |-> "",  city |-> "",  state |-> "",   pincode |-> ""]

NoUser == [id |-> None, email |-> "", first_name |-> "", last_name |-> "",
           phone |-> "", address |-> NoAddress]

Profiles ==
    { [id |-> 1, email |-> "e", first_name |-> "f", last_name |-> "l",
       phone |-> "9", address |-> FullAddress],
      [id |-> 1, email |-> "e", first_name |-> "f", last_name |-> "",
       phone |-> "9", address |-> FullAddress],
      [id |-> 1, email |-> "e", first_name |-> "f", last_name |-> "l",
       phone |-> "",  address |-> FullAddress],
      [id |-> 1, email |-> "e", first_name |-> "f", last_name |-> "l",
       phone |-> "9", address |-> NoAddress] }

VARIABLES
    \* database tables
    orders,            \* set of rows of table orders
    order_items,       \* set of rows of table order_items
    cook_payments,     \* set of rows of table cook_payments
    nextOrderId,       \* next generated orders.id
    users,             \* the signed-in user's row of table users (no code
                       \* of the checkout writes it)
    \* CheckoutPage state
    isLoggedIn, userData, processingPayment, razorpayLoaded, paymentMethod,
    cart, effectPending, toastMsg, route,
    \* handlePayment: position and locals
    pc,                \* where handlePayment is suspended
    order,             \* id of the row the orders insert returned
    paymentResponse,   \* what initiatePayment resolved with (while in use)
    paymentParams,     \* the options initiatePayment was called with
    \* verify-payment POST
    served,            \* the last request served: the status answered and,
                       \* when it was accepted, its payment id and order_db_id
    \* create-payment-session POST
    cpsPc,             \* where the handler is suspended
    cpsRequest,        \* the request being (or last) served
    cpsOptions,        \* the options handed to razorpay.orders.create
    cpsServed,         \* the last response
    razorpayOrders,    \* the gateway's log of orders.create calls
    \* AuthProvider
    authSession,       \* the session held by the Supabase client
    sessionState,      \* the provider's `session` state
    user, profile, isLoading,
    pending,           \* awaits in flight: who awaits, and for which user
    loadPc,            \* "mount" before the effect ran, then "mounted"
    signOutPc,         \* signOut: "idle" or "awaiting" supabase.auth.signOut
    \* CookProfileForm
    cooks,             \* set of rows of table cooks
    cook_profiles,     \* set of rows of table cook_profiles
    isSaving, cookPc, cookForm, cookToast, cookRoute

dbVars   == <<orders, order_items, cook_payments, nextOrderId, users>>
pageVars == <<isLoggedIn, userData, processingPayment, razorpayLoaded,
              paymentMethod, cart, effectPending, toastMsg, route>>
hpVars   == <<pc, order, paymentResponse, paymentParams>>
vVars    == <<served>>
cpsVars  == <<cpsPc, cpsRequest, cpsOptions, cpsServed, razorpayOrders>>
authVars == <<authSession, sessionState, user, profile, isLoading, pending,
              loadPc, signOutPc>>
cookVars == <<cooks, cook_profiles, isSaving, cookPc, cookForm, cookToast,
              cookRoute>>
\* the components beside the checkout: none of them shares state with it
sideVars == <<cpsVars, authVars, cookVars>>
checkoutVars == <<dbVars, pageVars, hpVars, vVars>>
vars     == <<dbVars, pageVars, hpVars, vVars, sideVars>>

NoResponse == [razorpay_payment_id |-> None, razorpay_order_id |-> None,
               razorpay_signature |-> None]

\* PaymentParams {amount, currency, ...}: amount in paise
NoParams == [amount |-> None, currency |-> ""]

NoAnswer == [status |-> None, payment_id |-> None, order_db_id |-> None]
Rejected == [status |-> 400, payment_id |-> None, order_db_id |-> None]
Accepted(req) ==
    [status |-> 200, payment_id |-> req.razorpay_payment_id,
     order_db_id |-> req.order_db_id]

\* ---- create-payment-session: requests and responses
\* The JSON body of a request: `has` names the members it carries, a member
\* it does not carry reads as undefined. `parsed` is false for a body
\* request.json() cannot read.
Members == {"amount", "currency", "receipt", "notes"}
Bodies ==
    {b \in [parsed : BOOLEAN, has : SUBSET Members,
            amount : {0, 100, 50000}, currency : {"", "INR"},
            receipt : {"", "rcpt_1"}, notes : {"", "order"}] :
        /\ ~b.parsed => b.has = {}
        /\ "amount" \notin b.has => b.amount = 0
        /\ "currency" \notin b.has => b.currency = ""
        /\ "receipt" \notin b.has => b.receipt = ""
        /\ "notes" \notin b.has => b.notes = ""}
NoBody == [parsed |-> FALSE, has |-> {}, amount |-> 0, currency |-> "",
           receipt |-> "", notes |-> ""]
NoOptions == [amount |-> 0, currency |-> "", receipt |-> "", notes |-> ""]
NoOrder == [id |-> None, amount |-> 0, currency |-> "", receipt |-> ""]
NoCpsAnswer == [status |-> None, error |-> "", order |-> NoOrder]

\* JavaScript's !x for a member of the body: undefined, 0 and "" are falsy
Falsy(b, m) ==
    \/ m \notin b.has
    \/ m = "amount" /\ b.amount = 0
    \/ m = "currency" /\ b.currency = ""
    \/ m = "receipt" /\ b.receipt = ""
    \/ m = "notes" /\ b.notes = ""

\* ---- AuthProvider
AuthUsers == {1, 2}                \* ids of the accounts that sign in
NoProfile == [id |-> None]         \* profile === null
Await(who, u) == [caller |-> who, userId |-> u]

\* ---- CookProfileForm: the submitted values
NoForm == [first_name |-> "", cuisineType |-> "", aadhaar |-> "", pan |-> ""]
Forms ==
    [first_name : {"Asha", "Ravi"}, cuisineType : {"North Indian", "Gujarati"},
     aadhaar : {"123412341234"}, pan : {"ABCDE1234F"}]

Init ==
    /\ orders = {} /\ order_items = {} /\ cook_payments = {}
    /\ nextOrderId = 1
    /\ users \in Profiles \cup {NoUser}
    /\ isLoggedIn = FALSE
    /\ userData = NoUser
    /\ processingPayment = FALSE
    /\ razorpayLoaded = FALSE
    /\ paymentMethod = "cash"
    /\ cart \in Carts
    /\ effectPending = TRUE
    /\ toastMsg = "" /\ route = "/checkout"
    /\ pc = "idle" /\ order = None /\ paymentResponse = NoResponse
    /\ paymentParams = NoParams
    /\ served = NoAnswer
    /\ cpsPc = "idle" /\ cpsRequest = NoBody /\ cpsOptions = NoOptions
    /\ cpsServed = NoCpsAnswer /\ razorpayOrders = <<>>
    /\ authSession = None /\ sessionState = None /\ user = None
    /\ profile = NoProfile /\ isLoading = TRUE /\ pending = {}
    /\ loadPc = "mount" /\ signOutPc = "idle"
    /\ cooks = {} /\ cook_profiles = {}
    /\ isSaving = FALSE /\ cookPc = "idle" /\ cookForm = NoForm
    /\ cookToast = "" /\ cookRoute = "/cook/profile"

\* ----------------------------------------------------- CheckoutPage effects
\* useEffect(loadRazorpaySDK): setRazorpayLoaded(true) once the script has
\* loaded; a script that fails to load leaves razorpayLoaded false.
\* handlePayment reads the razorpayLoaded captured when the button was
\* pressed, so the new value is taken only between two checkouts.
LoadRazorpaySDK ==
    /\ ~razorpayLoaded
    /\ pc \in {"idle", "done"}
    /\ razorpayLoaded' = TRUE
    /\ UNCHANGED <<dbVars, isLoggedIn, userData, processingPayment,
                   paymentMethod, cart, effectPending, toastMsg, route,
                   hpVars, vVars, sideVars>>

\* userProfile?.x || "" for every field of the fetched users row
combinedUserData(uid, userProfile) ==
    [id |-> uid, email |-> userProfile.email,
     first_name |-> userProfile.first_name,
     last_name |-> userProfile.last_name,
     phone |-> userProfile.phone, address |-> userProfile.address]

\* useEffect([supabase, router, cart]): checkAuth, then the empty-cart redirect.
\* It runs on mount and again whenever the cart changes.
CheckAuthEffect ==
    /\ effectPending
    /\ effectPending' = FALSE
    /\ \/ \* getSession reported an error: setError
          UNCHANGED <<isLoggedIn, userData>>
       \/ \* a session, then the users select or getUser reported an error:
          \* setIsLoggedIn(true) has run, setUserData has not
          /\ isLoggedIn' = TRUE
          /\ UNCHANGED userData
       \/ \* no session
          /\ isLoggedIn' = FALSE
          /\ UNCHANGED userData
       \/ \* a session, and the users row (possibly absent or with empty
          \* fields)
          /\ isLoggedIn' = TRUE
          /\ userData' = combinedUserData(1, users)
    /\ IF Len(cart) = 0
       THEN toastMsg' = "Your cart is empty" /\ route' = "/"
       ELSE UNCHANGED <<toastMsg, route>>
    /\ UNCHANGED <<dbVars, processingPayment, razorpayLoaded, paymentMethod,
                   cart, hpVars, vVars, sideVars>>

\* RadioGroup onValueChange={setPaymentMethod}.  handlePayment reads the
\* value captured when the button was pressed, so a change is taken only
\* between two checkouts.
SetPaymentMethod ==
    /\ pc \in {"idle", "done"}
    /\ \E m \in {"cash", "online"} : m # paymentMethod /\ paymentMethod' = m
    /\ UNCHANGED <<dbVars, isLoggedIn, userData, processingPayment,
                   razorpayLoaded, cart, effectPending, toastMsg,
                   route, hpVars, vVars, sideVars>>

\* hasCompleteProfile checking what handlePayment checks: name and address
hasCompleteProfile_NameAndAddress ==
    /\ userData.id # None
    /\ userData.first_name # "" /\ userData.last_name # ""
    /\ userData.address.street # "" /\ userData.address.city # ""
    /\ userData.address.state # ""  /\ userData.address.pincode # ""

hasCompleteProfile ==
    /\ userData.id # None
    /\ userData.first_name # "" /\ userData.last_name # ""
    /\ userData.email # "" /\ userData.phone # ""
    /\ userData.address.street # "" /\ userData.address.city # ""
    /\ userData.address.state # ""  /\ userData.address.pincode # ""

\* the `disabled` expression of the submit button
ButtonDisabled ==
    \/ ~isLoggedIn
    \/ processingPayment
    \/ userData.id = None
    \/ ~hasCompleteProfile
    \/ (paymentMethod = "online" /\ ~razorpayLoaded)

\* ------------------------------------------------------------ handlePayment
\* the outer catch without the finally block
Fail_NoFinally(msg) ==
    /\ toastMsg' = msg
    /\ UNCHANGED processingPayment
    /\ pc' = "done"

\* outer catch + finally: toast "Payment failed" with the error's message
Fail(msg) ==
    /\ toastMsg' = msg
    /\ processingPayment' = FALSE
    /\ pc' = "done"

\* clearCart(): the cart changes, so the [.., cart] effect runs again
clearCart ==
    /\ cart' = <<>>
    /\ effectPending' = TRUE

\* handlePayment without its setProcessingPayment(true)
HandlePaymentStart_NoFlag ==
    /\ pc \in {"idle", "done"}
    /\ ~ButtonDisabled
    /\ IF ~isLoggedIn \/ userData.id = None
       THEN /\ toastMsg' = "Please log in"
            /\ UNCHANGED hpVars
       ELSE /\ pc' = "getSession"
            /\ order' = None
            /\ paymentResponse' = NoResponse
            /\ paymentParams' = NoParams
            /\ UNCHANGED toastMsg
    /\ UNCHANGED <<dbVars, isLoggedIn, userData, processingPayment,
                   razorpayLoaded, paymentMethod, cart, effectPending, route,
                   vVars, sideVars>>

\* onClick={handlePayment}: the log-in guard, then setProcessingPayment(true)
\* and the suspension on supabase.auth.getSession().
HandlePaymentStart ==
    /\ pc \in {"idle", "done"}
    /\ ~ButtonDisabled
    /\ IF ~isLoggedIn \/ userData.id = None
       THEN /\ toastMsg' = "Please log in"
            /\ UNCHANGED <<processingPayment, hpVars>>
       ELSE /\ processingPayment' = TRUE
            /\ pc' = "getSession"
            /\ order' = None
            /\ paymentResponse' = NoResponse
            /\ paymentParams' = NoParams
            /\ UNCHANGED toastMsg
    /\ UNCHANGED <<dbVars, isLoggedIn, userData, razorpayLoaded, paymentMethod,
                   cart, effectPending, route, vVars, sideVars>>

\* cart.filter(item => !item.id || typeof item.id !== 'string' || !match)
invalidItems(c) == {i \in 1..Len(c) : ~IsUuid(c[i].id)}

\* the validation without its `!cart.length` check
ValidationError_NoEmptyCheck(session) ==
    IF ~session THEN "Authentication required"
    ELSE IF userData.first_name = "" \/ userData.last_name = ""
         THEN "Please complete your profile with your name before checkout"
    ELSE IF \/ userData.address.street = "" \/ userData.address.city = ""
            \/ userData.address.state = ""  \/ userData.address.pincode = ""
         THEN "Please add a complete delivery address to your profile"
    ELSE IF invalidItems(cart) # {} THEN "Invalid menu items in cart"
    ELSE ""

\* the validation between getSession and the orders insert
ValidationError(session) ==
    IF ~session THEN "Authentication required"
    ELSE IF userData.first_name = "" \/ userData.last_name = ""
         THEN "Please complete your profile with your name before checkout"
    ELSE IF \/ userData.address.street = "" \/ userData.address.city = ""
            \/ userData.address.state = ""  \/ userData.address.pincode = ""
         THEN "Please add a complete delivery address to your profile"
    ELSE IF Len(cart) = 0 THEN "Cart is empty"
    ELSE IF invalidItems(cart) # {} THEN "Invalid menu items in cart"
    ELSE ""

\* resumes after getSession: validates, or throws to the outer catch
HandlePaymentValidate ==
    /\ pc = "getSession"
    /\ \E session \in BOOLEAN :
         IF ValidationError(session) # ""
         THEN Fail(ValidationError(session))
         ELSE /\ pc' = "insertOrder"
              /\ UNCHANGED <<toastMsg, processingPayment>>
    /\ UNCHANGED <<dbVars, isLoggedIn, userData, razorpayLoaded, paymentMethod,
                   cart, effectPending, route, order,
                   paymentResponse, paymentParams, vVars, sideVars>>

\* orderData with the order written as already confirmed
orderData_Confirmed ==
    [user_id |-> userData.id, cook_id |-> cart[1].cook_id,
     status |-> "paid", total |-> TotalWithTax(cart),
     payment_method |-> paymentMethod, payment_status |-> "paid",
     payment_id |-> None]

orderData ==
    [user_id |-> userData.id, cook_id |-> cart[1].cook_id,
     status |-> "pending", total |-> TotalWithTax(cart),
     payment_method |-> paymentMethod, payment_status |-> "pending",
     payment_id |-> None]

\* the orders insert with its orderError only logged: the run goes on to
\* the order-line insert without an order
HandlePaymentInsertOrder_ErrorLogged ==
    /\ pc = "insertOrder"
    /\ \/ /\ pc' = "insertItems"
          /\ UNCHANGED <<orders, nextOrderId, order>>
       \/ /\ nextOrderId <= MaxOrders
          /\ orders' = orders \cup
                 {[id |-> nextOrderId] @@ orderData}
          /\ nextOrderId' = nextOrderId + 1
          /\ order' = nextOrderId
          /\ pc' = "insertItems"
    /\ UNCHANGED <<order_items, cook_payments, users, pageVars,
                   paymentResponse, paymentParams, vVars, sideVars>>

\* supabase.from("orders").insert(orderData).select().single()
HandlePaymentInsertOrder ==
    /\ pc = "insertOrder"
    /\ \/ \* orderError
          /\ Fail("Failed to create order")
          /\ UNCHANGED <<orders, nextOrderId, order>>
       \/ /\ nextOrderId <= MaxOrders
          /\ orders' = orders \cup
                 {[id |-> nextOrderId] @@ orderData}
          /\ nextOrderId' = nextOrderId + 1
          /\ order' = nextOrderId
          /\ pc' = "insertItems"
          /\ UNCHANGED <<toastMsg, processingPayment>>
    /\ UNCHANGED <<order_items, cook_payments, users, isLoggedIn, userData,
                   razorpayLoaded, paymentMethod, cart, effectPending, route,
                   paymentResponse, paymentParams, vVars, sideVars>>

\* the columns of table order_items declared NOT NULL without a default
order_items_required == {"order_id", "menu_id", "cook_id", "price_at_time"}

\* cart.map(item => ({order_id, menu_id, quantity, price_at_time}))
orderItems(oid) ==
    {[order_id |-> oid, menu_id |-> cart[i].id,
      quantity |-> cart[i].quantity, price_at_time |-> cart[i].price]
        : i \in 1..Len(cart)}

\* supabase.from("order_items").insert(orderItems), then the branch on the
\* payment method; the cash branch completes the checkout at once.
HandlePaymentInsertItems ==
    /\ pc = "insertItems"
    /\ \/ \* itemsError: go on to the compensating delete
          /\ pc' = "deleteOrder"
          /\ UNCHANGED <<order_items, cart, effectPending, toastMsg, route,
                         processingPayment>>
       \/ /\ order_items' = order_items \cup orderItems(order)
          /\ IF paymentMethod = "cash"
             THEN /\ clearCart
                  /\ toastMsg' = "Order placed successfully!"
                  /\ route' = "/orders/id"
                  /\ processingPayment' = FALSE
                  /\ pc' = "done"
             ELSE IF paymentMethod = "online" /\ razorpayLoaded
             THEN /\ pc' = "fetchCook"
                  /\ UNCHANGED <<cart, effectPending, toastMsg, route,
                                 processingPayment>>
             ELSE /\ processingPayment' = FALSE
                  /\ pc' = "done"
                  /\ UNCHANGED <<cart, effectPending, toastMsg, route>>
    /\ UNCHANGED <<orders, cook_payments, nextOrderId, users, isLoggedIn,
                   userData, razorpayLoaded, paymentMethod, order,
                   paymentResponse, paymentParams, vVars, sideVars>>

\* the items-error path emptying the cart as it fails
HandlePaymentDeleteOrder_ClearsCart ==
    /\ pc = "deleteOrder"
    /\ \/ orders' = {r \in orders : r.id # order}
       \/ UNCHANGED orders
    /\ Fail("Failed to add items to order")
    /\ clearCart
    /\ UNCHANGED <<order_items, cook_payments, nextOrderId, users, isLoggedIn,
                   userData, razorpayLoaded, paymentMethod, route, order,
                   paymentResponse, paymentParams, vVars, sideVars>>

\* supabase.from("orders").delete().eq("id", order.id); its result is not
\* inspected, then the items error is thrown.
HandlePaymentDeleteOrder ==
    /\ pc = "deleteOrder"
    /\ \/ orders' = {r \in orders : r.id # order}
       \/ UNCHANGED orders
    /\ Fail("Failed to add items to order")
    /\ UNCHANGED <<order_items, cook_payments, nextOrderId, users, isLoggedIn,
                   userData, razorpayLoaded, paymentMethod, cart,
                   effectPending, route, order, paymentResponse,
                   paymentParams, vVars, sideVars>>

\* ------------------------------------------------- online payment branch
\* supabase.from("cooks").select(...).single() only feeds the unused
\* cookName; then initiatePayment({amount: toPaise(totalAmount), currency:
\* "INR", ...}) is called and handlePayment waits for the widget.
HandlePaymentFetchCook ==
    /\ pc = "fetchCook"
    /\ paymentParams' = [amount |-> toPaise(TotalWithTax(cart)),
                         currency |-> "INR"]
    /\ pc' = "widget"
    /\ UNCHANGED <<dbVars, pageVars, order, paymentResponse, vVars, sideVars>>

\* what the gateway widget may hand to `handler`: a payment id, and, when the
\* widget was opened for a gateway session, that session id and a signature
GatewayResponses ==
    {[razorpay_payment_id |-> p, razorpay_order_id |-> None,
      razorpay_signature |-> None] : p \in PaymentIds}
    \cup
    {[razorpay_payment_id |-> p, razorpay_order_id |-> s,
      razorpay_signature |-> Hmac(Secret, s, p)]
        : p \in PaymentIds, s \in SessionIds}
    \cup
    {[razorpay_payment_id |-> p, razorpay_order_id |-> s,
      razorpay_signature |-> FlipBit(Hmac(Secret, s, p))]
        : p \in PaymentIds, s \in SessionIds}

\* initiatePayment: rzp.open(), then either `handler` resolves the promise
\* with the gateway's response or `modal.ondismiss` rejects it.
initiatePayment ==
    /\ pc = "widget"
    /\ \/ \E response \in GatewayResponses :
             /\ paymentResponse' = response
             /\ pc' = "updatePaid"
       \/ /\ pc' = "updateFailed"
          /\ UNCHANGED paymentResponse
    /\ UNCHANGED <<dbVars, pageVars, order, paymentParams, vVars, sideVars>>

\* SELECT * FROM orders WHERE id = oid: the row as a set, empty when absent
Row(oid) == {r \in orders : r.id = oid}

\* SELECT * FROM cook_payments WHERE order_id = oid
PayablesOf(oid) == {p \in cook_payments : p.order_id = oid}

\* UPDATE orders SET <fields> WHERE id = oid
UpdateOrder(oid, status, payment_status, payment_id) ==
    {IF r.id = oid
     THEN [r EXCEPT !.status = status, !.payment_status = payment_status,
                    !.payment_id = payment_id]
     ELSE r : r \in orders}

\* orders.update({status: "paid", payment_status: "paid", payment_id});
\* an updateError is logged and the flow continues.
HandlePaymentUpdatePaid ==
    /\ pc = "updatePaid"
    /\ \/ orders' = UpdateOrder(order, "paid", "paid",
                                paymentResponse.razorpay_payment_id)
       \/ UNCHANGED orders
    /\ pc' = "insertPayable"
    /\ UNCHANGED <<order_items, cook_payments, nextOrderId, users, pageVars,
                   order, paymentResponse, paymentParams, vVars, sideVars>>

\* INSERT INTO cook_payments: the row gets a generated id
InsertPayable(cook_id, order_id, amount) ==
    cook_payments \cup
      {[id |-> Cardinality(cook_payments) + 1, cook_id |-> cook_id,
        order_id |-> order_id, amount |-> amount, status |-> "pending"]}

\* cook_payments.insert({cook_id, order_id, amount: totalAmount, status});
\* a paymentError is logged; then clearCart, the success toast and the push.
HandlePaymentInsertPayable ==
    /\ pc = "insertPayable"
    /\ \/ /\ Cardinality(cook_payments) < MaxPayables
          /\ cook_payments' =
                InsertPayable(cart[1].cook_id, order, TotalWithTax(cart))
       \/ UNCHANGED cook_payments
    /\ clearCart
    /\ toastMsg' = "Payment successful!"
    /\ route' = "/orders/id"
    /\ processingPayment' = FALSE
    /\ pc' = "done"
    /\ paymentResponse' = NoResponse
    /\ paymentParams' = NoParams
    /\ UNCHANGED <<orders, order_items, nextOrderId, users, isLoggedIn,
                   userData, razorpayLoaded, paymentMethod, order, vVars,
                   sideVars>>

\* the catch block with its update writing status only, payment_status left
\* as it was
HandlePaymentUpdateFailed_StatusOnly ==
    /\ pc = "updateFailed"
    /\ \/ orders' = {IF r.id = order
                     THEN [r EXCEPT !.status = "payment_failed"]
                     ELSE r : r \in orders}
       \/ UNCHANGED orders
    /\ toastMsg' = "Payment failed: Payment cancelled by user"
    /\ processingPayment' = FALSE
    /\ pc' = "done"
    /\ paymentParams' = NoParams
    /\ UNCHANGED <<order_items, cook_payments, nextOrderId, users, isLoggedIn,
                   userData, razorpayLoaded, paymentMethod, cart,
                   effectPending, route, order, paymentResponse, vVars,
                   sideVars>>

\* catch (paymentError): orders.update({status: "payment_failed",
\* payment_status: "failed"}), result not inspected, then rethrown to the
\* outer catch as "Payment failed: <message>".
HandlePaymentUpdateFailed ==
    /\ pc = "updateFailed"
    /\ \/ orders' = UpdateOrder(order, "payment_failed", "failed",
                       (CHOOSE r \in orders : r.id = order).payment_id)
       \/ UNCHANGED orders
    /\ Fail("Payment failed: Payment cancelled by user")
    /\ paymentParams' = NoParams
    /\ UNCHANGED <<order_items, cook_payments, nextOrderId, users, isLoggedIn,
                   userData, razorpayLoaded, paymentMethod, cart,
                   effectPending, route, order, paymentResponse, vVars,
                   sideVars>>

\* ------------------------------------------------ verify-payment endpoint
\* request bodies: a gateway callback (payment id, session id and the
\* gateway's signature over them), the same with its signature tampered, or
\* with one of the three required fields missing; order_db_id is whatever
\* the caller sends: here the id of the first order, or none
TargetOrders == {1}

CallbackBodies ==
    [razorpay_payment_id : PaymentIds, razorpay_order_id : SessionIds,
     order_db_id : TargetOrders \cup {None}]

Signed(b) ==
    [razorpay_payment_id |-> b.razorpay_payment_id,
     razorpay_order_id |-> b.razorpay_order_id,
     razorpay_signature |->
         Hmac(Secret, b.razorpay_order_id, b.razorpay_payment_id),
     order_db_id |-> b.order_db_id]

\* the bodies the rejected shapes are made from: the first payment, sent
\* with an order_db_id
Aimed == {b \in CallbackBodies :
            b.razorpay_payment_id = 1 /\ b.order_db_id \in TargetOrders}

Requests ==
    {Signed(b) : b \in CallbackBodies}
    \cup {[Signed(b) EXCEPT !.razorpay_signature = FlipBit(@)] : b \in Aimed}
    \cup {[Signed(b) EXCEPT !.razorpay_signature = None] : b \in Aimed}
    \cup {[Signed(b) EXCEPT !.razorpay_payment_id = None] : b \in Aimed}
    \cup {[Signed(b) EXCEPT !.razorpay_order_id = None] : b \in Aimed}

\* shasum.update(`${razorpay_order_id}|${razorpay_payment_id}`).digest("hex")
digest(req) == Hmac(Secret, req.razorpay_order_id, req.razorpay_payment_id)

\* the three database calls of POST, each returning a result or an error:
\* orders.update({status: "paid", payment_id}).eq("id", order_db_id), whose
\* orderError is only logged;
VerifyUpdateOrder(req, updateOk) ==
    IF updateOk
    THEN {IF r.id = req.order_db_id
          THEN [r EXCEPT !.status = "paid",
                         !.payment_id = req.razorpay_payment_id]
          ELSE r : r \in orders}
    ELSE orders

\* orders.select("cook_id, total").eq("id", order_db_id).single(), read
\* after the update; no row, or a fetchError, gives no orderData;
VerifyFetchOrder(req, rows, fetchOk) ==
    IF fetchOk THEN {r \in rows : r.id = req.order_db_id} ELSE {}

\* cook_payments.insert({cook_id: orderData.cook_id, order_id: order_db_id,
\* amount: orderData.total, status: "pending"}), whose error is only logged.
VerifyInsertPayment(req, fetched, insertOk) ==
    IF fetched # {} /\ insertOk /\ Cardinality(cook_payments) < MaxPayables
    THEN LET orderRow == CHOOSE r \in fetched : TRUE
         IN  InsertPayable(orderRow.cook_id, req.order_db_id, orderRow.total)
    ELSE cook_payments

\* how the three calls may end, as <<updateOk, fetchOk, insertOk>>: the
\* insert is made only after a fetch that returned the row, and without a
\* row of that id none of the three has an effect
DbOutcomes(req) ==
    IF Row(req.order_db_id) = {}
    THEN {<<FALSE, FALSE, FALSE>>}
    ELSE {<<u, FALSE, FALSE>> : u \in BOOLEAN}
           \cup {<<u, TRUE, i>> : u \in BOOLEAN, i \in BOOLEAN}

\* POST: parameter check, signature comparison, then the database part when
\* order_db_id is given, then the 200 answer.  The handler is one request
\* served to its end.
VerifyPOST ==
    /\ \E req \in Requests :
         IF \/ req.razorpay_payment_id = None
            \/ req.razorpay_order_id = None
            \/ req.razorpay_signature = None
         THEN served' = Rejected /\ UNCHANGED <<orders, cook_payments>>
         ELSE IF digest(req) # req.razorpay_signature
         THEN served' = Rejected /\ UNCHANGED <<orders, cook_payments>>
         ELSE /\ served' = Accepted(req)
              /\ IF req.order_db_id = None
                 THEN UNCHANGED <<orders, cook_payments>>
                 ELSE \E o \in DbOutcomes(req) :
                        /\ orders' = VerifyUpdateOrder(req, o[1])
                        /\ cook_payments' =
                             VerifyInsertPayment(req,
                               VerifyFetchOrder(req, orders', o[2]), o[3])
    /\ UNCHANGED <<order_items, nextOrderId, users, pageVars, hpVars,
                   sideVars>>

\* ------------------------------------------- create-payment-session POST
\* {amount, currency, receipt: receipt || `receipt_${uuidv4()}`,
\*  notes: notes || {}}
options(b) ==
    [amount |-> b.amount, currency |-> b.currency,
     receipt |-> IF Falsy(b, "receipt") THEN "receipt_uuid" ELSE b.receipt,
     notes |-> IF Falsy(b, "notes") THEN "{}" ELSE b.notes]

\* the order object razorpay.orders.create resolves with for its n-th call
RazorpayOrder(n) ==
    [id |-> n, amount |-> razorpayOrders[n].amount,
     currency |-> razorpayOrders[n].currency,
     receipt |-> razorpayOrders[n].receipt]

CpsAnswer(st, msg, o) == [status |-> st, error |-> msg, order |-> o]

\* a handler that builds the options without looking at the body first
CreateSessionPOST_NoValidation ==
    /\ cpsPc = "idle"
    /\ \E b \in Bodies :
        /\ cpsRequest' = b
        /\ IF ~b.parsed
           THEN /\ cpsServed' = CpsAnswer(500, "Unexpected end of JSON input",
                                          NoOrder)
                /\ cpsOptions' = NoOptions
                /\ UNCHANGED <<cpsPc, razorpayOrders>>
           ELSE /\ Len(razorpayOrders) < MaxGatewayCalls
                /\ cpsOptions' = options(b)
                /\ razorpayOrders' = Append(razorpayOrders, options(b))
                /\ cpsPc' = "create"
                /\ cpsServed' = NoCpsAnswer
    /\ UNCHANGED <<checkoutVars, authVars, cookVars>>

\* POST up to its await of razorpay.orders.create(options): the body is
\* read (a body that cannot be read throws into the catch: 500), amount and
\* currency are tested with `!`, the options are built and the gateway is
\* called.
CreateSessionPOST ==
    /\ cpsPc = "idle"
    /\ \E b \in Bodies :
        /\ cpsRequest' = b
        /\ IF ~b.parsed
           THEN /\ cpsServed' = CpsAnswer(500, "Unexpected end of JSON input",
                                          NoOrder)
                /\ cpsOptions' = NoOptions
                /\ UNCHANGED <<cpsPc, razorpayOrders>>
           ELSE IF Falsy(b, "amount") \/ Falsy(b, "currency")
           THEN /\ cpsServed' = CpsAnswer(400,
                                    "Amount and currency are required", NoOrder)
                /\ cpsOptions' = NoOptions
                /\ UNCHANGED <<cpsPc, razorpayOrders>>
           ELSE /\ Len(razorpayOrders) < MaxGatewayCalls
                /\ cpsOptions' = options(b)
                /\ razorpayOrders' = Append(razorpayOrders, options(b))
                /\ cpsPc' = "create"
                /\ cpsServed' = NoCpsAnswer
    /\ UNCHANGED <<checkoutVars, authVars, cookVars>>

\* razorpay.orders.create resolves with the order (200) or rejects, with or
\* without a message (500: error.message || "Failed to create order")
CreateSessionAnswer ==
    /\ cpsPc = "create"
    /\ \/ cpsServed' = CpsAnswer(200, "", RazorpayOrder(Len(razorpayOrders)))
       \/ \E msg \in {"", "The amount must be atleast INR 1.00"} :
             cpsServed' = CpsAnswer(500,
                            IF msg = "" THEN "Failed to create order" ELSE msg,
                            NoOrder)
    /\ cpsPc' = "idle"
    /\ UNCHANGED <<cpsRequest, cpsOptions, razorpayOrders>>
    /\ UNCHANGED <<checkoutVars, authVars, cookVars>>

\* ---------------------------------------------------------- AuthProvider
\* The effect runs once: loadSession() goes as far as its await of
\* supabase.auth.getSession() and onAuthStateChange registers the listener.
LoadSession ==
    /\ loadPc = "mount"
    /\ loadPc' = "mounted"
    /\ isLoading' = TRUE
    /\ pending' = pending \cup {Await("getSession", None)}
    /\ UNCHANGED <<authSession, sessionState, user, profile, signOutPc>>
    /\ UNCHANGED <<checkoutVars, cpsVars, cookVars>>

\* loadSession resumes after getSession, which answers with the session
\* the client holds: an error ends it in the catch and the finally;
\* otherwise setSession(session) and, with a user, setUser and the await of
\* fetchProfile; with none, the finally.
LoadSessionGotSession ==
    /\ \E f \in pending :
        /\ f.caller = "getSession"
        /\ \/ /\ pending' = pending \ {f}
              /\ isLoading' = FALSE
              /\ UNCHANGED <<sessionState, user>>
           \/ /\ sessionState' = authSession
              /\ IF authSession # None
                 THEN /\ user' = authSession
                      /\ pending' = (pending \ {f})
                                       \cup {Await("loadSession", authSession)}
                      /\ UNCHANGED isLoading
                 ELSE /\ pending' = pending \ {f}
                      /\ isLoading' = FALSE
                      /\ UNCHANGED user
    /\ UNCHANGED <<authSession, profile, loadPc, signOutPc>>
    /\ UNCHANGED <<checkoutVars, cpsVars, cookVars>>

\* The client's session changes (sign-in, token refresh, sign-out elsewhere)
\* and, once the listener is registered, its callback runs up to its await:
\* setSession, setUser, then fetchProfile for a user or setProfile(null).
OnAuthStateChange ==
    /\ \E s \in AuthUsers \cup {None} :
        /\ authSession' = s
        /\ IF loadPc = "mount"
           THEN UNCHANGED <<sessionState, user, profile, pending>>
           ELSE /\ sessionState' = s
                /\ user' = s
                /\ IF s # None
                   THEN /\ pending' = pending \cup {Await("event", s)}
                        /\ UNCHANGED profile
                   ELSE /\ profile' = NoProfile
                        /\ UNCHANGED pending
    /\ UNCHANGED <<isLoading, loadPc, signOutPc>>
    /\ UNCHANGED <<checkoutVars, cpsVars, cookVars>>

\* refreshProfile up to its await: nothing without a user
RefreshProfile ==
    /\ loadPc = "mounted"
    /\ user # None
    /\ isLoading' = TRUE
    /\ pending' = pending \cup {Await("refreshProfile", user)}
    /\ UNCHANGED <<authSession, sessionState, user, profile, loadPc,
                   signOutPc>>
    /\ UNCHANGED <<checkoutVars, cpsVars, cookVars>>

\* fetchProfile returns (the row, or null) to whoever awaited it, and the
\* caller calls setProfile({id: <the user it fetched for>, ...}); none of
\* the three callers looks at the session again before it does.
\* loadSession and refreshProfile then set isLoading false.
FetchProfileReturns ==
    /\ \E f \in pending :
        /\ f.caller \in {"loadSession", "event", "refreshProfile"}
        /\ pending' = pending \ {f}
        /\ profile' = [id |-> f.userId]
        /\ IF f.caller = "event"
           THEN UNCHANGED isLoading
           ELSE isLoading' = FALSE
    /\ UNCHANGED <<authSession, sessionState, user, loadPc, signOutPc>>
    /\ UNCHANGED <<checkoutVars, cpsVars, cookVars>>

\* signOut up to its await: supabase.auth.signOut() drops the client's
\* session and the listener's callback runs with a null session
SignOut ==
    /\ loadPc = "mounted"
    /\ signOutPc = "idle"
    /\ signOutPc' = "awaiting"
    /\ authSession' = None
    /\ sessionState' = None
    /\ user' = None
    /\ profile' = NoProfile
    /\ UNCHANGED <<isLoading, pending, loadPc>>
    /\ UNCHANGED <<checkoutVars, cpsVars, cookVars>>

\* signOut resumes: setProfile(null)
SignOutReturns ==
    /\ signOutPc = "awaiting"
    /\ signOutPc' = "idle"
    /\ profile' = NoProfile
    /\ UNCHANGED <<authSession, sessionState, user, isLoading, pending,
                   loadPc>>
    /\ UNCHANGED <<checkoutVars, cpsVars, cookVars>>

\* ------------------------------------------------------ CookProfileForm
\* upsert(row, {onConflict: "cook_id"}): the row replaces the one with the
\* same cook_id, every column the statement names taking the new value
Upsert(table, row) ==
    {r \in table : r.cook_id # row.cook_id} \cup {row}

\* catch + finally of onSubmit
SaveFailed ==
    /\ cookToast' = "Error saving profile"
    /\ isSaving' = FALSE
    /\ cookPc' = "idle"

\* the submit button (disabled while isSaving) calls onSubmit with the
\* form's values: setIsSaving(true), then the await of getSession
OnSubmit ==
    /\ cookRoute = "/cook/profile"
    /\ cookPc = "idle"
    /\ ~isSaving
    /\ \E data \in Forms : cookForm' = data
    /\ isSaving' = TRUE
    /\ cookPc' = "getSession"
    /\ UNCHANGED <<cooks, cook_profiles, cookToast, cookRoute>>
    /\ UNCHANGED <<checkoutVars, cpsVars, authVars>>

\* resumes after getSession: without a user it throws "Not authenticated"
OnSubmitGotSession ==
    /\ cookPc = "getSession"
    /\ \/ SaveFailed
       \/ /\ cookPc' = "upsertCooks"
          /\ UNCHANGED <<isSaving, cookToast>>
    /\ UNCHANGED <<cooks, cook_profiles, cookForm, cookRoute>>
    /\ UNCHANGED <<checkoutVars, cpsVars, authVars>>

\* supabase.from("cooks").upsert({cook_id: session.user.id, ...,
\* isAvailable: true}, {onConflict: "cook_id"}); an error is thrown
OnSubmitUpsertCooks ==
    /\ cookPc = "upsertCooks"
    /\ \/ /\ cooks' = Upsert(cooks, [cook_id |-> CookA,
                                      first_name |-> cookForm.first_name,
                                      isAvailable |-> TRUE])
          /\ cookPc' = "upsertProfile"
          /\ UNCHANGED <<isSaving, cookToast>>
       \/ /\ SaveFailed
          /\ UNCHANGED cooks
    /\ UNCHANGED <<cook_profiles, cookForm, cookRoute>>
    /\ UNCHANGED <<checkoutVars, cpsVars, authVars>>

\* supabase.from("cook_profiles").upsert({cook_id, cuisine_type, aadhaar,
\* pan, verification_status: false}, {onConflict: "cook_id"}); an error is
\* thrown; otherwise toast "Profile saved", router.push("/cook/dashboard")
\* and the finally
OnSubmitUpsertProfile ==
    /\ cookPc = "upsertProfile"
    /\ \/ /\ cook_profiles' =
                Upsert(cook_profiles, [cook_id |-> CookA,
                                       cuisine_type |-> cookForm.cuisineType,
                                       aadhaar |-> cookForm.aadhaar,
                                       pan |-> cookForm.pan,
                                       verification_status |-> FALSE])
          /\ cookToast' = "Profile saved"
          /\ cookRoute' = "/cook/dashboard"
          /\ isSaving' = FALSE
          /\ cookPc' = "idle"
       \/ /\ SaveFailed
          /\ UNCHANGED <<cook_profiles, cookRoute>>
    /\ UNCHANGED <<cooks, cookForm>>
    /\ UNCHANGED <<checkoutVars, cpsVars, authVars>>

\* "Needs to be verified by admin": the admin, outside this code, sets
\* verification_status of a cook's row to true
AdminVerifies ==
    /\ \E r \in cook_profiles :
        /\ ~r.verification_status
        /\ cook_profiles' =
              Upsert(cook_profiles, [r EXCEPT !.verification_status = TRUE])
    /\ UNCHANGED <<cooks, isSaving, cookPc, cookForm, cookToast, cookRoute>>
    /\ UNCHANGED <<checkoutVars, cpsVars, authVars>>

\* the cook opens the profile page again: the form mounts and its effect
\* (fetchCookProfile) fills it from the cook's rows
OpenCookProfile ==
    /\ cookPc = "idle"
    /\ cookRoute = "/cook/dashboard"
    /\ cookRoute' = "/cook/profile"
    /\ cookToast' = ""
    /\ UNCHANGED <<cooks, cook_profiles, isSaving, cookPc, cookForm>>
    /\ UNCHANGED <<checkoutVars, cpsVars, authVars>>

\* ------------------------------------------------------------------ system
Next ==
    \/ LoadRazorpaySDK
    \/ CheckAuthEffect
    \/ SetPaymentMethod
    \/ HandlePaymentStart
    \/ HandlePaymentValidate
    \/ HandlePaymentInsertOrder
    \/ HandlePaymentInsertItems
    \/ HandlePaymentDeleteOrder
    \/ HandlePaymentFetchCook
    \/ initiatePayment
    \/ HandlePaymentUpdatePaid
    \/ HandlePaymentInsertPayable
    \/ HandlePaymentUpdateFailed
    \/ VerifyPOST

Spec == Init /\ [][Next]_vars

\* The checkout page on its own: the effects, the payment-method choice and
\* the steps of handlePayment. The verification endpoint is not called by
\* this page and writes nothing handlePayment waits for.
NextPage ==
    \/ LoadRazorpaySDK
    \/ CheckAuthEffect
    \/ SetPaymentMethod
    \/ HandlePaymentStart
    \/ HandlePaymentValidate
    \/ HandlePaymentInsertOrder
    \/ HandlePaymentInsertItems
    \/ HandlePaymentDeleteOrder
    \/ HandlePaymentFetchCook
    \/ initiatePayment
    \/ HandlePaymentUpdatePaid
    \/ HandlePaymentInsertPayable
    \/ HandlePaymentUpdateFailed

\* The page under the scheduling its liveness depends on: every awaited
\* database call of handlePayment returns and the gateway widget reports
\* (success, failure or dismissal), so a step of handlePayment that can be
\* taken is eventually taken.
SpecLive ==
    /\ Init /\ [][NextPage]_vars
    /\ WF_vars(HandlePaymentValidate)
    /\ WF_vars(HandlePaymentInsertOrder)
    /\ WF_vars(HandlePaymentInsertItems)
    /\ WF_vars(HandlePaymentDeleteOrder)
    /\ WF_vars(HandlePaymentFetchCook)
    /\ WF_vars(initiatePayment)
    /\ WF_vars(HandlePaymentUpdatePaid)
    /\ WF_vars(HandlePaymentInsertPayable)
    /\ WF_vars(HandlePaymentUpdateFailed)

\* The components beside the checkout start from one checkout state: no
\* step of theirs reads or writes the checkout's variables.
InitSide == Init /\ users = NoUser /\ cart = <<>>

\* the create-payment-session endpoint
NextSession ==
    \/ CreateSessionPOST
    \/ CreateSessionAnswer

SpecSession == InitSide /\ [][NextSession]_vars

\* the AuthProvider
NextAuth ==
    \/ LoadSession
    \/ LoadSessionGotSession
    \/ OnAuthStateChange
    \/ RefreshProfile
    \/ FetchProfileReturns
    \/ SignOut
    \/ SignOutReturns

SpecAuth == InitSide /\ [][NextAuth]_vars

\* the cook profile form and the admin beside it
NextCook ==
    \/ OnSubmit
    \/ OnSubmitGotSession
    \/ OnSubmitUpsertCooks
    \/ OnSubmitUpsertProfile
    \/ AdminVerifies
    \/ OpenCookProfile

SpecCook == InitSide /\ [][NextCook]_vars

\* ================================================================ claims

ValidSignature(resp) ==
    /\ resp.razorpay_signature # None
    /\ resp.razorpay_signature =
          Hmac(Secret, resp.razorpay_order_id, resp.razorpay_payment_id)

CancelledMsg == "Payment failed: Payment cancelled by user"

\* C1: when handlePayment has finished an online checkout whose payment the
\* gateway captured (the success handler fired, so the flow ran to the
\* success toast), the Order is not at status=pending/payment_status=pending.
C1_CapturedNotLeftPending ==
    (pc = "done" /\ toastMsg = "Payment successful!") =>
        \A r \in Row(order) :
            ~(r.status = "pending" /\ r.payment_status = "pending")

\* C2: an Order is set to status=paid only when the server-side HMAC
\* comparison has just succeeded for the payment id written on it, that is,
\* the request last served by the endpoint was accepted for that payment.
C2_PaidOnlyAfterVerification ==
    [][\A n \in orders' :
         (n.status = "paid" /\ \A r \in Row(n.id) : r.status # "paid")
            => served'.status = 200 /\ served'.payment_id = n.payment_id]_vars

\* C3: a checkout whose callback signature is not the HMAC of its
\* order_id|payment_id finishes with the Order at status=payment_failed.
C3_TamperedEndsFailed ==
    [][(pc = "insertPayable" /\ pc' = "done"
          /\ ~ValidSignature(paymentResponse))
        => \A r \in orders' : r.id = order => r.status = "payment_failed"]_vars

\* C4: a checkout with a valid signature finishes with the Order at
\* status=paid, payment_status=paid and exactly one Payable for it, of
\* amount = the order's total and status=pending.
C4_ValidEndsPaidOnePayable ==
    [][(pc = "insertPayable" /\ pc' = "done"
          /\ ValidSignature(paymentResponse))
        => \A r \in orders' : r.id = order =>
             /\ r.status = "paid" /\ r.payment_status = "paid"
             /\ Cardinality({p \in cook_payments' : p.order_id = order}) = 1
             /\ \A p \in cook_payments' : p.order_id = order =>
                   p.amount = r.total /\ p.status = "pending"]_vars

\* the last request served was accepted and has taken effect: its order is
\* paid with its payment id and has a Payable
TookEffect ==
    /\ served.status = 200
    /\ \E r \in Row(served.order_db_id) :
          /\ r.status = "paid" /\ r.payment_id = served.payment_id
          /\ PayablesOf(r.id) # {}

\* a step of the endpoint (the page does not move) that accepts the same
\* payload again
RepeatedValidCall ==
    /\ served' = served
    /\ UNCHANGED <<pageVars, hpVars>>

\* C5: a second verify-payment call with the same valid payload, made after
\* the first took effect, changes neither the Order nor the Payables (so
\* exactly one Payable is left).
C5_VerifyIdempotent ==
    [][(TookEffect /\ RepeatedValidCall)
        => UNCHANGED <<orders, cook_payments>>]_vars

\* C6: when the Order-Lines insert has failed, no Order row of that checkout
\* remains once handlePayment has finished.
C6_NoOrphanOrder ==
    (pc = "done" /\ toastMsg = "Failed to add items to order") =>
        Row(order) = {}

\* a step that ends the online branch after something in it failed: the
\* widget was dismissed, or the flow reaches its end with the Order not
\* paid (the update to paid failed) or without a new Payable (its insert
\* failed)
OnlineBranchFailed ==
    \/ pc = "updateFailed" /\ pc' = "done"
    \/ /\ pc = "insertPayable" /\ pc' = "done"
       /\ \/ \E r \in Row(order) : r.status # "paid"
          \/ cook_payments' = cook_payments

\* C7: when a step of the online branch fails after the Order exists, the
\* Order is at status=payment_failed/payment_status=failed when handlePayment
\* ends, the failure is the toast shown, and the row is still there.
C7_FailureMarksOrderFailed ==
    [][OnlineBranchFailed =>
         /\ \E r \in orders' : r.id = order
         /\ \A r \in orders' : r.id = order =>
               r.status = "payment_failed" /\ r.payment_status = "failed"
         /\ toastMsg' = CancelledMsg]_vars

\* C8: once the widget was dismissed and handlePayment has finished, there
\* is no Payable for the order and the Order is at
\* status=payment_failed/payment_status=failed.
C8_CancelledTerminalNoPayable ==
    (pc = "done" /\ toastMsg = CancelledMsg) =>
        /\ PayablesOf(order) = {}
        /\ \A r \in Row(order) :
              r.status = "payment_failed" /\ r.payment_status = "failed"

\* C9 as stated: cancelling the widget fails the checkout with the
\* payment-cancelled error and leaves the Order at status=pending.
C9_CancelLeavesPending ==
    [][(pc = "updateFailed" /\ pc' # pc) =>
         /\ toastMsg' = CancelledMsg
         /\ \A r \in orders' : r.id = order => r.status = "pending"]_vars

\* C9 amended: cancelling the widget fails the checkout with the
\* payment-cancelled error, the row is kept, and the Order is put at
\* status=payment_failed/payment_status=failed; it is left as it was only
\* when that update call returns an error.
C9_CancelMarksFailed ==
    [][(pc = "updateFailed" /\ pc' # pc) =>
         /\ toastMsg' = CancelledMsg
         /\ pc' = "done" /\ ~processingPayment'
         /\ \E r \in orders' : r.id = order
         /\ \A r \in orders' : r.id = order =>
               \/ r.status = "payment_failed" /\ r.payment_status = "failed"
               \/ r \in orders
         /\ \A r \in orders' : r.id # order => r \in orders]_vars

\* C9 witness: the widget was dismissed and the Order is now payment_failed
C9_Witness ==
    /\ pc = "done" /\ toastMsg = CancelledMsg
    /\ \E r \in Row(order) :
          r.status = "payment_failed" /\ r.payment_status = "failed"

\* C10: an Order's status only moves forward: payment_failed never becomes
\* paid, and paid never becomes payment_failed or pending.
C10_StatusMonotonic ==
    [][\A r \in orders : \A n \in orders' : n.id = r.id =>
         /\ r.status = "payment_failed" => n.status # "paid"
         /\ r.status = "paid" => n.status = "paid"]_vars

\* C11: a cash checkout that passed validation inserts its Order at
\* status=pending/payment_status=pending; when its order-line insert has
\* succeeded it finishes with the success toast without touching orders or
\* cook_payments and without having called the gateway, so that (no
\* verify-payment request having been served) the Order is pending/pending
\* and has no Payable.
C11_CashEndsPending ==
    [][/\ (paymentMethod = "cash" /\ pc = "insertOrder"
             /\ pc' = "insertItems")
          => \E r \in orders' \ orders :
                /\ r.id = order'
                /\ r.status = "pending" /\ r.payment_status = "pending"
                /\ orders' = orders \cup {r}
       /\ (paymentMethod = "cash" /\ pc = "insertItems" /\ pc' = "done")
          => /\ toastMsg' = "Order placed successfully!"
             /\ UNCHANGED <<orders, cook_payments>>
             /\ paymentParams = NoParams /\ paymentParams' = NoParams
             /\ served = NoAnswer =>
                  /\ \E r \in orders' : r.id = order
                  /\ \A r \in orders' : r.id = order =>
                        r.status = "pending" /\ r.payment_status = "pending"
                  /\ \A p \in cook_payments' : p.order_id # order]_vars

\* C11 witness: a cash order has been placed; it is pending/pending and has
\* no Payable
C11_Witness ==
    /\ pc = "done" /\ toastMsg = "Order placed successfully!"
    /\ paymentMethod = "cash" /\ served = NoAnswer
    /\ \E r \in Row(order) :
          r.status = "pending" /\ r.payment_status = "pending"
    /\ PayablesOf(order) = {}

\* C12: in every reachable state each Payable refers to an Order that is at
\* status=paid and payment_status=paid.
C12_PayableOnlyForPaidOrder ==
    \A p \in cook_payments :
        \E r \in Row(p.order_id) :
            r.status = "paid" /\ r.payment_status = "paid"

\* a step in which the endpoint accepts a request that carries the
\* order_db_id of an existing order (the page does not move) and its
\* database calls go through: the order is at status=paid afterwards and a
\* cook_payments row has been added
AcceptedForOrder ==
    /\ UNCHANGED <<pageVars, hpVars>>
    /\ served'.status = 200
    /\ \E r \in orders' : r.id = served'.order_db_id /\ r.status = "paid"
    /\ cook_payments' # cook_payments

\* C13: when the endpoint accepts a validly signed request with an
\* order_db_id (and none of its database calls returns an error), the Order
\* is then at status=paid, payment_status=paid with
\* payment_id = the gateway payment id, and a Payable {cook_id, order_id,
\* amount=total, status=pending} with the order's cook_id and total has been
\* added.
C13_VerifySetsPaidAndPayable ==
    [][AcceptedForOrder =>
         \A r \in orders' : r.id = served'.order_db_id =>
            /\ r.status = "paid" /\ r.payment_status = "paid"
            /\ r.payment_id = served'.payment_id
            /\ \E p \in cook_payments' \ cook_payments :
                  /\ p.cook_id = r.cook_id /\ p.order_id = r.id
                  /\ p.amount = r.total /\ p.status = "pending"]_vars

\* round(x, 2) of an amount in rupees: to whole paise, a half rounded up,
\* written in 1/100 paise
Round2(x) == ((x + 50) \div 100) * 100

\* C14: the total stored on an Order the checkout inserts equals the cart's
\* subtotal (sum of unit price x quantity) times 1.18, rounded to 2 decimal
\* places.
C14_TotalRoundedTo2 ==
    [][(pc = "insertOrder" /\ pc' = "insertItems") =>
         \A r \in orders' \ orders :
            r.total = Round2(getCartTotal(cart) * 118)]_vars

\* an amount held in 1/100 paise, times 100 as rupees, to the nearest whole
\* number of paise (a half goes up)
NearestPaise(t) ==
    LET lo == t \div 100
    IN  IF t - lo * 100 < (lo + 1) * 100 - t THEN lo ELSE lo + 1

\* handlePayment is in its online branch, past the call of initiatePayment
GatewayCalled ==
    pc \in {"widget", "updatePaid", "insertPayable", "updateFailed"}

\* C15: once an online checkout has called the gateway, the amount it passed
\* is the stored total of its Order x 100 rounded to the nearest integer and
\* the currency is INR; and the Payable the checkout writes afterwards
\* carries that same Order total as its amount.
C15_GatewayAmountInMinorUnits ==
    /\ [](GatewayCalled =>
            /\ paymentParams.currency = "INR"
            /\ Row(order) # {}
            /\ \A r \in Row(order) :
                  paymentParams.amount = NearestPaise(r.total))
    /\ [][(pc = "insertPayable" /\ pc' = "done") =>
            \A p \in cook_payments' \ cook_payments :
               /\ p.order_id = order
               /\ \A r \in Row(order) : p.amount = r.total]_vars

\* C15 witness: the gateway was called for a total that is not a whole
\* number of paise (294.9882 rupees) with 29499 paise, and has answered
C15_Witness ==
    /\ pc = "updatePaid"
    /\ paymentParams = [amount |-> 29499, currency |-> "INR"]
    /\ \E r \in Row(order) : r.total = 2949882

\* one of the seven profile fields the claim names is empty
IncompleteProfile(u) ==
    \/ u.first_name = "" \/ u.last_name = "" \/ u.phone = ""
    \/ u.address.street = "" \/ u.address.city = ""
    \/ u.address.state = ""  \/ u.address.pincode = ""

\* C16: while the stored profile lacks any of first_name, last_name, phone,
\* address.street, address.city, address.state or address.pincode, a
\* checkout attempt is refused as incomplete-profile (the submit button is
\* disabled, and once the profile is loaded the page shows the incomplete
\* profile alert instead), so handlePayment never runs and there is no
\* Order, Order Line or Payable.
C16_IncompleteProfileRefused ==
    IncompleteProfile(users) =>
        /\ ButtonDisabled
        /\ (isLoggedIn /\ userData.id # None) => ~hasCompleteProfile
        /\ pc = "idle" /\ ~processingPayment
        /\ orders = {} /\ order_items = {} /\ cook_payments = {}

\* C16 witness: the profile was loaded with an empty phone (the field that
\* handlePayment itself does not check) and the button is disabled
C16_Witness ==
    /\ users.phone = "" /\ users.first_name # "" /\ users.last_name # ""
    /\ users.address = FullAddress
    /\ ~effectPending /\ isLoggedIn /\ userData = users
    /\ Len(cart) > 0
    /\ ButtonDisabled /\ orders = {}

\* where the page sends a user who has to sign in: /login with the checkout
\* page as the redirect target (the Login link of the page)
SignInRoute == "/login?redirect=/checkout"

\* C17: a checkout attempt made with no valid session fails as
\* not-authenticated, writes nothing to orders, order_items or
\* cook_payments, and sends the user to sign-in with the checkout page as
\* the destination: the page navigates there, or at least shows its sign-in
\* link (which it does while isLoggedIn is false).
C17_NoSessionSentToSignIn ==
    [][(pc = "getSession" /\ pc' = "done"
          /\ toastMsg' = "Authentication required")
        => /\ UNCHANGED <<orders, order_items, cook_payments>>
           /\ (route' = SignInRoute \/ ~isLoggedIn')]_vars

\* the cart holds a line whose id is not of the canonical 8-4-4-4-12 hex
\* shape; of the ids the carts use, those of LineA and LineB are
HasNonCanonicalId(c) ==
    \E i \in 1..Len(c) : c[i].id \notin {LineA.id, LineB.id}

\* C18: with a cart that holds a line whose id is not of the UUID shape,
\* handlePayment never gets to an insert: its validation ends the attempt
\* with no Order and no Order Line written, failing as invalid menu items
\* (or, the session check coming first, as not authenticated when the
\* session is gone).
C18_InvalidIdFailsBeforeInsert ==
    /\ [](HasNonCanonicalId(cart) =>
            /\ pc \in {"idle", "getSession", "done"}
            /\ orders = {} /\ order_items = {})
    /\ [][(pc = "getSession" /\ pc' # pc /\ HasNonCanonicalId(cart)) =>
            /\ pc' = "done" /\ ~processingPayment'
            /\ toastMsg' \in {"Invalid menu items in cart",
                              "Authentication required"}
            /\ UNCHANGED dbVars]_vars

\* C18 witness: a checkout of the cart with the non-UUID id has failed as
\* invalid menu items, and nothing was written
C18_Witness ==
    /\ cart = <<LineBad>>
    /\ pc = "done" /\ toastMsg = "Invalid menu items in cart"
    /\ orders = {} /\ order_items = {}

\* C19: a checkout attempt with a cart of zero lines fails as empty cart
\* (or, the session check coming first, as not authenticated when the
\* session is gone) and creates no Order.
C19_EmptyCartFails ==
    [][(pc = "getSession" /\ pc' # pc /\ Len(cart) = 0) =>
         /\ pc' = "done" /\ ~processingPayment'
         /\ toastMsg' \in {"Cart is empty", "Authentication required"}
         /\ UNCHANGED dbVars]_vars

\* C19 witness: a checkout of the empty cart has failed as empty cart, with
\* no Order in the table
C19_Witness ==
    /\ cart = <<>>
    /\ pc = "done" /\ toastMsg = "Cart is empty"
    /\ orders = {}

\* a step of handlePayment that moves it to another position
Moves == pc' # pc

\* C20: handlePayment goes validate, insert Order, insert Order Lines,
\* settle payment, each entered only from the one before and only when
\* that one succeeded; every write is made at its own position; and when
\* the Order insert fails the run ends there, with no Order-Lines insert,
\* no delete, no gateway call and no Payable insert.
C20_StepsInOrder ==
    [][Moves =>
         /\ pc' = "getSession" => pc \in {"idle", "done"}
         /\ pc' = "insertOrder" => pc = "getSession"
         /\ pc' = "insertItems" =>
               /\ pc = "insertOrder"
               /\ \E r \in orders' \ orders : r.id = order'
         /\ pc' = "deleteOrder" =>
               pc = "insertItems" /\ order_items' = order_items
         /\ pc' = "fetchCook" =>
               /\ pc = "insertItems"
               /\ order_items' = order_items \cup orderItems(order)
         /\ pc' = "widget" => pc = "fetchCook"
         /\ pc' \in {"updatePaid", "updateFailed"} => pc = "widget"
         /\ pc' = "insertPayable" => pc = "updatePaid"
         /\ order_items' # order_items => pc = "insertItems"
         /\ orders' # orders =>
               pc \in {"insertOrder", "deleteOrder", "updatePaid",
                       "updateFailed"}
         /\ cook_payments' # cook_payments => pc = "insertPayable"
         /\ paymentParams' \notin {paymentParams, NoParams} =>
               pc = "fetchCook"
         /\ (pc = "insertOrder" /\ orders' = orders) =>
               /\ pc' = "done" /\ toastMsg' = "Failed to create order"
               /\ paymentParams' = NoParams
               /\ UNCHANGED dbVars]_vars

\* C20 witness: the Order insert of a checkout failed and the run ended with
\* nothing written and no gateway call
C20_Witness ==
    /\ pc = "done" /\ toastMsg = "Failed to create order"
    /\ Len(cart) > 0 /\ order = None
    /\ orders = {} /\ order_items = {} /\ cook_payments = {}
    /\ paymentParams = NoParams

\* C21: while a checkout is in flight (handlePayment started and not yet
\* finished) processingPayment is true and the submit button is disabled,
\* so a second handlePayment cannot be started before the first has ended.
C21_InFlightBlocksSubmit ==
    pc \notin {"idle", "done"} => (processingPayment /\ ButtonDisabled)

\* C21 witness: a checkout waits for the gateway widget; the button would
\* be enabled but for processingPayment
C21_Witness ==
    /\ pc = "widget"
    /\ isLoggedIn /\ hasCompleteProfile /\ razorpayLoaded
    /\ processingPayment /\ ButtonDisabled
    /\ Cardinality(orders) = 1

\* C22: every Order the checkout inserts is a single-cook order: its
\* cook_id is the cook of every line of the cart it was made from (a cart
\* with lines of two cooks does not produce an Order).
C22_SingleCookOrder ==
    [][(pc = "insertOrder" /\ pc' = "insertItems") =>
         \A r \in orders' \ orders :
            \A i \in 1..Len(cart) : cart[i].cook_id = r.cook_id]_vars

\* C23: the endpoint answers 200 only to a request that carries all four
\* body fields (payment id, session id, signature, order_db_id) with a
\* matching signature, and a request it answers 400 writes nothing to
\* orders or cook_payments.
C23_VerifyAnswers ==
    [][UNCHANGED <<pageVars, hpVars>> =>
         /\ served'.status = 200 =>
               /\ served'.payment_id # None
               /\ served'.order_db_id # None
         /\ served'.status = 400 => UNCHANGED <<orders, cook_payments>>]_vars

C26_LastNavigationIsOrderPage ==
    [][route = "/orders/id" => route' = "/orders/id"]_vars

\* C28: every row of the order-line insert carries a value for each
\* order_items column that is NOT NULL without a default.
C28_OrderLinesCarryRequiredColumns ==
    pc = "insertItems" =>
        \A row \in orderItems(order) :
            order_items_required \subseteq DOMAIN row

\* C29: every run of handlePayment that sets processingPayment to true
\* eventually sets it back to false, whatever path the run takes, as long
\* as its database calls return and the gateway widget reports.
C29_ProcessingEventuallyReset ==
    processingPayment ~> ~processingPayment

\* C29 witness: a run went through the gateway widget, the paid update and
\* the Payable insert, and ended with the flag back to false
C29_Witness ==
    /\ pc = "done" /\ toastMsg = "Payment successful!"
    /\ ~processingPayment /\ cook_payments # {}

\* C24 (as the code has it): a request whose body cannot be read is
\* answered 500 without a gateway call; a request whose amount or currency
\* is missing, 0 or "" is answered 400 without a gateway call; every other
\* request calls the gateway once with the options built from the body and
\* is answered 200 with the gateway's order when the call succeeds and 500
\* when it fails.
C24_SessionAnswers ==
    (cpsPc = "idle" /\ cpsServed # NoCpsAnswer) =>
        LET b == cpsRequest
            refused == Falsy(b, "amount") \/ Falsy(b, "currency")
        IN  /\ cpsServed.status \in {200, 400, 500}
            /\ ~b.parsed =>
                  cpsServed.status = 500 /\ cpsOptions = NoOptions
            /\ (b.parsed /\ refused) =>
                  cpsServed.status = 400 /\ cpsOptions = NoOptions
            /\ (b.parsed /\ ~refused) =>
                  /\ cpsServed.status \in {200, 500}
                  /\ cpsOptions = options(b)
                  /\ razorpayOrders[Len(razorpayOrders)] = cpsOptions
            /\ cpsServed.status = 200 =>
                  /\ cpsServed.order.id = Len(razorpayOrders)
                  /\ cpsServed.order.amount = b.amount
                  /\ cpsServed.order.currency = b.currency
            /\ cpsServed.status # 200 =>
                  cpsServed.order = NoOrder /\ cpsServed.error # ""

\* C24 witness: a body that carries amount 0 and a currency was refused
\* with 400 after an earlier request had gone through the gateway
C24_Witness ==
    /\ cpsPc = "idle" /\ cpsServed.status = 400
    /\ "amount" \in cpsRequest.has /\ cpsRequest.amount = 0
    /\ "currency" \in cpsRequest.has /\ cpsRequest.currency = "INR"
    /\ Len(razorpayOrders) = 1

\* C24 (as stated), for a body that can be read: 400 exactly when amount or
\* currency is missing from it, without a gateway call; otherwise the
\* gateway is called and the answer is 200 with its order, or 500 when the
\* call failed.
C24_MissingOnly ==
    (cpsPc = "idle" /\ cpsServed # NoCpsAnswer) =>
        LET b == cpsRequest
            missing == "amount" \notin b.has \/ "currency" \notin b.has
        IN  b.parsed =>
              /\ missing =>
                    cpsServed.status = 400 /\ cpsOptions = NoOptions
              /\ ~missing =>
                    /\ cpsServed.status \in {200, 500}
                    /\ cpsOptions # NoOptions

\* C27: in AuthProvider, whenever no await is in flight, the profile is
\* null if the session is null and otherwise carries the id of the
\* session's user: no fetch started for an earlier session has overwritten
\* the state of a later one.
C27_ProfileFollowsSession ==
    (loadPc = "mounted" /\ pending = {} /\ signOutPc = "idle") =>
        IF sessionState = None
        THEN profile = NoProfile
        ELSE profile.id = sessionState

\* C30: a successful save of the cook profile form never lowers the
\* verification state: a cook whose cook_profiles row has
\* verification_status = true before the save still has it after.
C30_SaveKeepsVerification ==
    [][(cookPc = "upsertProfile" /\ cookToast' = "Profile saved") =>
         \A r \in cook_profiles :
            r.verification_status =>
               \A q \in cook_profiles' :
                  q.cook_id = r.cook_id => q.verification_status]_vars

====
